---- MODULE Spec2Model ----
(***************************************************************************)
(* Seat allocation of the TravelGo booking application (app.py): the train *)
(* and bus confirmation flows, cancellation, the session draft and the     *)
(* bookings table.  A string is a sequence of one-character strings, so    *)
(* that ', '.join and split(', ') are computed and not assumed.            *)
(***************************************************************************)
EXTENDS Integers, Sequences, FiniteSets, TLC

\* ------------------------------------------------------------------ bounds
NumTrainSeats == 2      \* stands for range(1, 101)
NumBusSeats == 1        \* stands for range(1, 41)
MaxClock == 2           \* datetime.now() returns one of 1..MaxClock
MaxBookings == 2        \* uuid4 values drawn in a run

\* ------------------------------------------------------------------ inputs
Sessions == {"s1", "s2"}
Emails == {"a", "b"}
\* the account whose password the holder of each session knows
UserOf == [s \in Sessions |-> IF s = "s1" THEN "a" ELSE "b"]
ItemIds == {"I1"}
TravelDates == {"d1"}
PersonsInputs == {0, 1, 2}      \* the persons argument of the train search
BusPersonsInputs == {1}         \* the persons argument of the bus search
NoEmail == "nobody"
Missing == <<"?">>      \* request.form.get(...) returning None

\* ----------------------------------------------------------------- strings
Sep == <<",", " ">>
Digits == <<"1", "2", "3", "4", "5", "6", "7", "8", "9">>

Range(f) == {f[i] : i \in DOMAIN f}

\* f"S{i}"
SeatName(i) == <<"S", Digits[i]>>

\* [f"S{i}" for i in range(1, n + 1)]
all_seats(n) == [i \in 1..n |-> SeatName(i)]

\* first index at which sep occurs in s, 0 when it does not
Find(s, sep) ==
    LET hits == {i \in 1..(Len(s) - Len(sep) + 1) : SubSeq(s, i, i + Len(sep) - 1) = sep}
    IN  IF hits = {} THEN 0 ELSE CHOOSE i \in hits : \A j \in hits : i <= j

RECURSIVE Split(_, _)
\* s.split(sep)
Split(s, sep) ==
    LET i == Find(s, sep)
    IN  IF i = 0 THEN <<s>>
        ELSE <<SubSeq(s, 1, i - 1)>> \o Split(SubSeq(s, i + Len(sep), Len(s)), sep)

RECURSIVE Join(_, _)
\* sep.join(parts)
Join(sep, parts) ==
    IF Len(parts) = 0 THEN <<>>
    ELSE IF Len(parts) = 1 THEN parts[1]
    ELSE parts[1] \o sep \o Join(sep, Tail(parts))

\* random.sample(population, k) raises ValueError
SampleRaises(population, k) == k < 0 \/ k > Len(population)

\* faulty variant of Sample: the draws are made with replacement
SampleWithReplacement(population, k) == [1..k -> Range(population)]

\* random.sample(population, k), for 0 <= k <= len(population)
Sample(population, k) ==
    {q \in [1..k -> Range(population)] : \A i, j \in 1..k : i # j => q[i] # q[j]}

\* the selected_seats form field of final_confirm_bus_booking
SelectedInputs ==
    { Missing,
      <<>>,
      <<"S", "1">>,
      <<"S", "1", ",", " ", "S", "2">>,
      <<"S", "1", ",", " ", "S", "1">>,
      <<"S", "9">> }

\* ------------------------------------------------------------------- state
VARIABLES
    sessEmail,   \* session['email'] of each session, NoEmail when absent
    pending,     \* session['pending_booking'] of each session: <<>> or <<draft>>
    bookings,    \* the items of bookings_table
    nextId,      \* the next uuid4 value
    req,         \* the finalize request of each session that is in flight
    last         \* the response the latest step returned

vars == <<sessEmail, pending, bookings, nextId, req, last>>

\* no request in flight.  pc is where the handler stands, booking the popped
\* draft, seats the seats_display it is about to store, taken the booked seats
\* its re-check query found
IdleReq == [pc |-> "idle", op |-> "none", booking |-> <<>>, seats |-> <<>>,
            taken |-> {}]

\* the handler op returns result to session s; notified tells whether
\* send_sns_notification ran: 1 when publish returned, 2 when it raised
Response(s, op, result, notified) ==
    [sess |-> s, op |-> op, result |-> result, notified |-> notified]

\* the latest step rendered a page or has not answered yet
NoResponse == Response("s1", "none", "none", 0)

Init ==
    /\ sessEmail = [s \in Sessions |-> NoEmail]
    /\ pending = [s \in Sessions |-> <<>>]
    /\ bookings = {}
    /\ nextId = 1
    /\ req = [s \in Sessions |-> IdleReq]
    /\ last = NoResponse

\* --------------------------------------------------------- bookings_table
\* query(IndexName='GSI_ItemDate', item_id = i and travel_date = d)
Query(tbl, i, d) == {b \in tbl : b.item_id = i /\ b.travel_date = d}

\* put_item(Item=item): the item replaces the one stored under the same key
PutItem(tbl, item) ==
    {b \in tbl : ~(b.user_email = item.user_email /\ b.booking_date = item.booking_date)}
        \cup {item}

\* faulty variant of DeleteItem: the key is the booking_date alone
DeleteByDate(tbl, e, d) == {b \in tbl : b.booking_date # d}

\* delete_item(Key={'user_email': e, 'booking_date': d})
DeleteItem(tbl, e, d) == {b \in tbl : ~(b.user_email = e /\ b.booking_date = d)}

\* booked_seats.update(b['seats_display'].split(', ')) over the queried items
booked_seats(items) == UNION {Range(Split(b.seats_display, Sep)) : b \in items}

\* faulty variant of available_seats: the booked seats are not left out
available_seats_all(all, booked) == all

\* faulty variant of available_seats: the seats of the requests in flight are
\* left out as well, so the result depends on more than the table
available_seats_holding(all, booked) ==
    SelectSeq(all, LAMBDA seat :
        /\ seat \notin booked
        /\ \A v \in Sessions : seat \notin Range(Split(req[v].seats, Sep)))

\* [seat for seat in all_seats if seat not in booked_seats]
available_seats(all, booked) == SelectSeq(all, LAMBDA seat : seat \notin booked)

\* ----------------------------------------------------------------- session
\* a session sends its next request once the previous one has been answered
Free(s) == req[s].pc = "idle"

\* a uuid4 value remains for one more request to reach put_item
IdLeft == nextId + Cardinality({v \in Sessions : req[v].pc = "put"}) <= MaxBookings

\* login: session['email'] = email, for a registered email and its password
Login(s) ==
    /\ Free(s)
    /\ sessEmail[s] = NoEmail
    /\ sessEmail' = [sessEmail EXCEPT ![s] = UserOf[s]]
    /\ last' = NoResponse
    /\ UNCHANGED <<pending, bookings, nextId, req>>

\* logout: session.pop('email', None)
Logout(s) ==
    /\ Free(s)
    /\ sessEmail[s] # NoEmail
    /\ sessEmail' = [sessEmail EXCEPT ![s] = NoEmail]
    /\ last' = NoResponse
    /\ UNCHANGED <<pending, bookings, nextId, req>>

\* faulty variant of Pop: session.get, the draft stays in the session
Peek(p, s) == p

\* session.pop('pending_booking', None): what is left in the session
Pop(p, s) == [p EXCEPT ![s] = <<>>]

\* faulty variant of send_sns_notification: the exception of publish escapes
send_sns_notification_raising(publish_ok) ==
    [raised |-> ~publish_ok, sent |-> IF publish_ok THEN 1 ELSE 2]

\* send_sns_notification(subject, message): publish, its exception printed and
\* swallowed; sent is 1 when publish returned, 2 when it raised
send_sns_notification(publish_ok) ==
    [raised |-> FALSE, sent |-> IF publish_ok THEN 1 ELSE 2]

\* the booking_details dict built from the request arguments
Details(type, s, i, d, n) ==
    [booking_type |-> type, item_id |-> i, travel_date |-> d, num_persons |-> n,
     user_email |-> sessEmail[s]]

\* the dict handed to put_item: the draft with seats_display, booking_id, booking_date
Item(draft, seats, id, date) ==
    [booking_type |-> draft.booking_type, item_id |-> draft.item_id,
     travel_date |-> draft.travel_date,
     user_email |-> draft.user_email, seats_display |-> seats,
     booking_id |-> id, booking_date |-> date]

\* ------------------------------------------------------------------- train
\* faulty variant of NotEnough: the comparison is off by one
NotEnoughOffByOne(available, n) == Len(available) + 1 < n

\* len(available_seats) < num_persons
NotEnough(available, n) == Len(available) < n

confirm_train_details(s, i, d, n) ==
    /\ Free(s)
    /\ sessEmail[s] # NoEmail
    /\ LET booking_details == Details("train", s, i, d, n)
           booked == booked_seats(Query(bookings, i, d))
           available == available_seats(all_seats(NumTrainSeats), booked)
           shown == IF Len(available) < n THEN Len(available) ELSE n
       IN  IF NotEnough(available, n)
           THEN UNCHANGED pending                       \* flash, redirect to train
           ELSE IF SampleRaises(available, shown)
           \* the draft is assigned, then random.sample raises ValueError
           THEN \E kept \in BOOLEAN :
                    pending' = IF kept THEN [pending EXCEPT ![s] = <<booking_details>>]
                               ELSE pending
           ELSE pending' = [pending EXCEPT ![s] = <<booking_details>>]
    /\ last' = NoResponse
    /\ UNCHANGED <<sessEmail, bookings, nextId, req>>

\* final_confirm_train_booking up to the allocation (lines 205-231)
final_confirm_train_booking(s) ==
    /\ Free(s)
    /\ UNCHANGED <<sessEmail, bookings, nextId>>
    /\ IF sessEmail[s] = NoEmail
       THEN /\ last' = Response(s, "train", "not_logged_in", 0)
            /\ UNCHANGED <<pending, req>>
       ELSE IF pending[s] = <<>>
       THEN /\ last' = Response(s, "train", "no_pending", 0)
            /\ UNCHANGED <<pending, req>>
       ELSE LET booking_data == pending[s][1]
                booked == booked_seats(Query(bookings, booking_data.item_id,
                                             booking_data.travel_date))
                available == available_seats(all_seats(NumTrainSeats), booked)
            IN  /\ pending' = Pop(pending, s)
                /\ IF NotEnough(available, booking_data.num_persons)
                   THEN /\ last' = Response(s, "train", "insufficient", 0)
                        /\ UNCHANGED req
                   ELSE IF SampleRaises(available, booking_data.num_persons)
                   THEN /\ last' = Response(s, "train", "error500", 0)  \* ValueError
                        /\ UNCHANGED req
                   ELSE /\ IdLeft
                        /\ \E allocated \in Sample(available, booking_data.num_persons) :
                               req' = [req EXCEPT ![s] =
                                          [IdleReq EXCEPT !.pc = "put", !.op = "train",
                                                          !.booking = <<booking_data>>,
                                                          !.seats = Join(Sep, allocated),
                                                          !.taken = booked]]
                        /\ last' = NoResponse

\* faulty variant of train_put_item: put_item is taken under a lock that a
\* request acquires only once no other request stands at put_item
train_put_item_waiting(s) ==
    /\ req[s].pc = "put"
    /\ req[s].op = "train"
    /\ \A v \in Sessions \ {s} : req[v].pc # "put"
    /\ UNCHANGED <<sessEmail, pending>>
    /\ req' = [req EXCEPT ![s] = IdleReq]
    /\ \E now \in 1..MaxClock :
           /\ bookings' = PutItem(bookings, Item(req[s].booking[1], req[s].seats, nextId, now))
           /\ nextId' = nextId + 1
           /\ last' = Response(s, "train", "success", 1)

\* booking_id, booking_date, put_item, send_sns_notification and the response
\* (lines 234-246).  put_item may raise; the message reads
\* booking_data['train_number'], which only a train draft holds
train_put_item(s) ==
    /\ req[s].pc = "put"
    /\ req[s].op = "train"
    /\ UNCHANGED <<sessEmail, pending>>
    /\ req' = [req EXCEPT ![s] = IdleReq]
    /\ \/ \E now \in 1..MaxClock :
              LET item == Item(req[s].booking[1], req[s].seats, nextId, now)
              IN  /\ bookings' = PutItem(bookings, item)
                  /\ nextId' = nextId + 1
                  /\ IF item.booking_type # "train"
                     THEN last' = Response(s, "train", "error500", 0) \* KeyError
                     ELSE \E publish_ok \in BOOLEAN :
                              LET n == send_sns_notification(publish_ok)
                              IN  last' = Response(s, "train",
                                                   IF n.raised THEN "error500"
                                                   ELSE "success", n.sent)
       \/ /\ last' = Response(s, "train", "error500", 0)
          /\ UNCHANGED <<bookings, nextId>>

\* --------------------------------------------------------------------- bus
confirm_bus_details(s, i, d, n) ==
    /\ Free(s)
    /\ sessEmail[s] # NoEmail
    /\ pending' = [pending EXCEPT ![s] = <<Details("bus", s, i, d, n)>>]
    /\ last' = NoResponse
    /\ UNCHANGED <<sessEmail, bookings, nextId, req>>

\* select_bus_seats: the draft is rebuilt from the query arguments and stored;
\* the page shows booked_seats and all_seats
select_bus_seats(s, i, d, n) ==
    /\ Free(s)
    /\ sessEmail[s] # NoEmail
    /\ LET booking == Details("bus", s, i, d, n)
           booked == booked_seats(Query(bookings, i, d))
           shown == all_seats(NumBusSeats)
       IN  pending' = [pending EXCEPT ![s] = <<booking>>]
    /\ last' = NoResponse
    /\ UNCHANGED <<sessEmail, bookings, nextId, req>>

\* faulty variant of AnyBooked: the re-check is skipped
NeverBooked(selected_seats, existing_booked_seats) == FALSE

\* faulty variant of AnyBooked: all() in place of any()
AllBooked(selected_seats, existing_booked_seats) ==
    \A k \in DOMAIN selected_seats : selected_seats[k] \in existing_booked_seats

\* any(s in existing_booked_seats for s in selected_seats)
AnyBooked(selected_seats, existing_booked_seats) ==
    \E k \in DOMAIN selected_seats : selected_seats[k] \in existing_booked_seats

\* final_confirm_bus_booking up to the collision check (lines 331-359)
final_confirm_bus_booking(s, selected_seats_str) ==
    /\ Free(s)
    /\ UNCHANGED <<sessEmail, bookings, nextId>>
    /\ IF sessEmail[s] = NoEmail
       THEN /\ last' = Response(s, "bus", "not_logged_in", 0)
            /\ UNCHANGED <<pending, req>>
       ELSE /\ pending' = Pop(pending, s)
            /\ IF pending[s] = <<>> \/ selected_seats_str \in {Missing, <<>>}
               THEN /\ last' = Response(s, "bus", "missing_data", 0)
                    /\ UNCHANGED req
               ELSE LET booking == pending[s][1]
                        selected_seats == Split(selected_seats_str, Sep)
                        existing_booked_seats ==
                            booked_seats(Query(bookings, booking.item_id,
                                               booking.travel_date))
                    IN  IF AnyBooked(selected_seats, existing_booked_seats)
                        THEN /\ last' = Response(s, "bus", "collision", 0)
                             /\ UNCHANGED req
                        ELSE /\ IdLeft
                             /\ req' = [req EXCEPT ![s] =
                                           [IdleReq EXCEPT
                                               !.pc = "put", !.op = "bus",
                                               !.booking = <<booking>>,
                                               !.seats = selected_seats_str,
                                               !.taken = existing_booked_seats]]
                             /\ last' = NoResponse

\* booking_id, booking_date, put_item, send_sns_notification and the response
\* (lines 360-373); put_item may raise
bus_put_item(s) ==
    /\ req[s].pc = "put"
    /\ req[s].op = "bus"
    /\ UNCHANGED <<sessEmail, pending>>
    /\ req' = [req EXCEPT ![s] = IdleReq]
    /\ \/ \E now \in 1..MaxClock :
              LET item == Item(req[s].booking[1], req[s].seats, nextId, now)
              IN  /\ bookings' = PutItem(bookings, item)
                  /\ nextId' = nextId + 1
                  /\ \E publish_ok \in BOOLEAN :
                         LET n == send_sns_notification(publish_ok)
                         IN  last' = Response(s, "bus",
                                              IF n.raised THEN "error500" ELSE "success",
                                              n.sent)
       \/ /\ last' = Response(s, "bus", "error500", 0)
          /\ UNCHANGED <<bookings, nextId>>

\* ------------------------------------------------------------------ cancel
\* the booking_id and booking_date form fields of cancel_booking, 0 when missing
CancelInputs == {<<0, 1>>, <<1, 0>>} \cup {<<1, date>> : date \in 1..MaxClock}

\* faulty variant of LoggedIn: the login check is left out
AlwaysLoggedIn(s) == TRUE

\* 'email' in session
LoggedIn(s) == sessEmail[s] # NoEmail

\* cancel_booking: redirect to login without an email in the session;
\* booking_id and booking_date are form fields, 0 when missing; delete_item may
\* raise, which is flashed
cancel_booking(s, booking_id, booking_date) ==
    /\ Free(s)
    /\ UNCHANGED <<sessEmail, pending, nextId, req>>
    /\ IF ~LoggedIn(s)
       THEN /\ last' = Response(s, "cancel", "not_logged_in", 0)
            /\ UNCHANGED bookings
       ELSE IF booking_id = 0 \/ booking_date = 0
       THEN /\ last' = Response(s, "cancel", "missing_data", 0)
            /\ UNCHANGED bookings
       ELSE \/ /\ bookings' = DeleteItem(bookings, sessEmail[s], booking_date)
               /\ last' = Response(s, "cancel", "success", 0)
            \/ /\ last' = Response(s, "cancel", "failed", 0)
               /\ UNCHANGED bookings

\* ------------------------------------------------------------ specification
Next ==
    \/ \E s \in Sessions : Login(s)
    \/ \E s \in Sessions : Logout(s)
    \/ \E s \in Sessions, i \in ItemIds, d \in TravelDates, n \in PersonsInputs :
           confirm_train_details(s, i, d, n)
    \/ \E s \in Sessions, i \in ItemIds, d \in TravelDates, n \in BusPersonsInputs :
           confirm_bus_details(s, i, d, n)
    \/ \E s \in Sessions, i \in ItemIds, d \in TravelDates, n \in BusPersonsInputs :
           select_bus_seats(s, i, d, n)
    \/ \E s \in Sessions : final_confirm_train_booking(s)
    \/ \E s \in Sessions : train_put_item(s)
    \/ \E s \in Sessions, sel \in SelectedInputs : final_confirm_bus_booking(s, sel)
    \/ \E s \in Sessions : bus_put_item(s)
    \/ \E s \in Sessions, f \in CancelInputs : cancel_booking(s, f[1], f[2])

Spec == Init /\ [][Next]_vars

\* no finalize request stands between its query and its put_item
NoneInFlight == \A v \in Sessions : req[v].pc = "idle"

\* the finalize requests are serialized: a request goes from its query on to
\* put_item only while no other request is in flight
SerialNext ==
    /\ Next
    /\ \A s \in Sessions : (req[s].pc = "idle" /\ req'[s].pc = "put") => NoneInFlight

SerialSpec == Init /\ [][SerialNext]_vars

\* the worker that handles a request runs on: a request that stands at put_item
\* is not left there for ever
FairSpec ==
    Spec /\ \A s \in Sessions : WF_vars(train_put_item(s)) /\ WF_vars(bus_put_item(s))

\* ------------------------------------------------------------------ claims
\* the seat identifiers a seats_display holds, in order
SeatList(str) == SelectSeq(Split(str, Sep), LAMBDA t : t # <<>>)

SeatIds(b) == Range(SeatList(b.seats_display))

SameTrip(b1, b2) == b1.item_id = b2.item_id /\ b1.travel_date = b2.travel_date

\* the seat universe of a flow
Universe(op) == Range(all_seats(IF op = "train" THEN NumTrainSeats ELSE NumBusSeats))

\* what the GSI_ItemDate query of a draft's item and date returns
Booked(tbl, draft) == booked_seats(Query(tbl, draft.item_id, draft.travel_date))

\* this step answers a request of session s
Answered(s) == last' # NoResponse /\ last'.sess = s

\* this step is the first step of a finalize request of session s in flow op
Started(s, op) ==
    /\ req[s].pc = "idle"
    /\ \/ req'[s].pc = "put" /\ req'[s].op = op
       \/ Answered(s) /\ last'.op = op

\* this step is the put_item step of the finalize request of session s
PutStep(s) == req[s].pc = "put" /\ req'[s].pc = "idle"

\* the records this step adds to the table
Inserted == bookings' \ bookings

\* C1: in every reachable state no seat identifier is held by two distinct
\* booking records of the same (item_id, travel_date)
C1_NoSeatInTwoRecords ==
    \A b1, b2 \in bookings :
        (b1 # b2 /\ SameTrip(b1, b2)) => SeatIds(b1) \cap SeatIds(b2) = {}

\* C2: for every item, date and seat universe, with taken the union of the split
\* seats_display of the queried records, available and taken partition the universe
C2_UniversePartition ==
    \A i \in ItemIds, d \in TravelDates, n \in {NumTrainSeats, NumBusSeats} :
        LET taken == booked_seats(Query(bookings, i, d))
            available == Range(available_seats(all_seats(n), taken))
        IN  /\ available \cup taken = Range(all_seats(n))
            /\ available \cap taken = {}

\* C3: a committed record never holds more seats than were available (universe
\* minus taken) in the re-check of the request that commits it
C3_NoOverAllocation ==
    [][\A s \in Sessions :
          PutStep(s) =>
              \A item \in Inserted :
                  Cardinality(SeatIds(item))
                      <= Cardinality(Universe(req[s].op) \ req[s].taken)]_vars

\* C4: a bus finalize whose selection includes a seat of an existing record of the
\* same item and date fails: the table is unchanged, nothing is left to insert
\* and no notification is sent; only a selection free of such seats goes on
C4_CollisionRejected ==
    [][\A s \in Sessions :
          (Started(s, "bus") /\ sessEmail[s] # NoEmail /\ pending[s] # <<>>) =>
              /\ bookings' = bookings
              /\ last'.notified = 0
              /\ \/ /\ req'[s].pc = "put"
                    /\ req'[s].seats # <<>>
                    /\ Range(Split(req'[s].seats, Sep)) \cap Booked(bookings, pending[s][1]) = {}
                 \/ /\ req'[s] = IdleReq
                    /\ last'.result \in {"collision", "missing_data"}]_vars

C4_Witness ==
    /\ last.op = "bus"
    /\ last.result = "collision"
    /\ bookings # {}

\* C5: a train finalize that finds fewer available seats than num_persons fails
\* with the insufficient-seats answer, inserts nothing and notifies nobody
C5_ShortageRejected ==
    [][\A s \in Sessions :
          (/\ Started(s, "train") /\ sessEmail[s] # NoEmail /\ pending[s] # <<>>
           /\ Cardinality(Universe("train") \ Booked(bookings, pending[s][1]))
                  < pending[s][1].num_persons) =>
              /\ last' = Response(s, "train", "insufficient", 0)
              /\ bookings' = bookings
              /\ req'[s] = IdleReq]_vars

C5_Witness ==
    /\ last.op = "train"
    /\ last.result = "insufficient"
    /\ bookings # {}

\* C6: a successful train finalize commits one record holding exactly num_persons
\* pairwise distinct seats, all available at its re-check, under a booking_id no
\* stored record has, and runs send_sns_notification once
C6_TrainCommit ==
    [][\A s \in Sessions :
          (PutStep(s) /\ req[s].op = "train" /\ last'.result = "success") =>
              LET draft == req[s].booking[1]
              IN  /\ Cardinality(Inserted) = 1
                  /\ last'.notified \in {1, 2}
                  /\ \A item \in Inserted :
                         /\ bookings' \ {item} \subseteq bookings
                         /\ Len(SeatList(item.seats_display)) = draft.num_persons
                         /\ Cardinality(SeatIds(item)) = draft.num_persons
                         /\ SeatIds(item) \subseteq Universe("train") \ req[s].taken
                         /\ \A b \in bookings : b.booking_id # item.booking_id]_vars

C6_Witness ==
    /\ last.op = "train"
    /\ last.result = "success"
    /\ \E b \in bookings : b.booking_type = "train" /\ Cardinality(SeatIds(b)) = 2

\* the seat identifiers the records of an item and date hold
SeatsHeld(tbl, i, d) == UNION {SeatIds(b) : b \in Query(tbl, i, d)}

\* this step is a cancel_booking of session s whose delete_item returned
Cancelled(s) == Answered(s) /\ last'.op = "cancel" /\ last'.result = "success"

\* C7: cancel_booking removes the record under its key and no other, and the
\* seats of that record, and only those, stop being booked for its item and date
C7_CancelFreesItsSeats ==
    [][\A s \in Sessions :
          Cancelled(s) =>
              /\ bookings' \subseteq bookings
              /\ Cardinality(bookings \ bookings') <= 1
              /\ \A r \in bookings \ bookings' :
                     /\ r.user_email = sessEmail[s]
                     /\ SeatsHeld(bookings, r.item_id, r.travel_date)
                            \ SeatsHeld(bookings', r.item_id, r.travel_date)
                        = SeatIds(r)]_vars

\* C8: a stored record stays in the table, unchanged, until a cancel_booking of
\* its owner deletes it; no confirmation replaces it
C8_WriteOnce ==
    [][\A b \in bookings :
          \/ b \in bookings'
          \/ \E s \in Sessions : Cancelled(s) /\ sessEmail[s] = b.user_email]_vars

\* C9: send_sns_notification runs only in the step that has inserted the record
\* of the request, and a publish that raises leaves the record stored and the
\* request answered as a success
C9_NotifyAfterCommit ==
    [][/\ last'.notified # 0 =>
              \E s \in Sessions :
                  /\ PutStep(s)
                  /\ Answered(s)
                  /\ \E item \in Inserted :
                         /\ item.seats_display = req[s].seats
                         /\ item.user_email = req[s].booking[1].user_email
       /\ last'.notified = 2 =>
              /\ last'.result = "success"
              /\ Inserted # {}
              /\ Inserted \subseteq bookings']_vars

C9_Witness ==
    /\ last.result = "success"
    /\ last.notified = 2
    /\ \E b \in bookings : b.user_email = UserOf[last.sess]

\* C10: a finalize request of a logged-in session leaves no draft in the
\* session; without a draft it fails and inserts nothing; a request that goes on
\* to put_item carries the draft it popped and inserts one record built from it
C10_DraftConsumed ==
    [][\A s \in Sessions :
          /\ \A op \in {"train", "bus"} :
                 (Started(s, op) /\ sessEmail[s] # NoEmail) =>
                     /\ pending'[s] = <<>>
                     /\ IF pending[s] = <<>>
                        THEN /\ last'.result \in {"no_pending", "missing_data"}
                             /\ bookings' = bookings
                             /\ req' = req
                        ELSE req'[s].pc = "put" => req'[s].booking = pending[s]
          /\ PutStep(s) =>
                 /\ pending[s] = <<>>
                 /\ Cardinality(Inserted) <= 1
                 /\ \A item \in Inserted :
                        item = Item(req[s].booking[1], req[s].seats,
                                    item.booking_id, item.booking_date)]_vars

C10_Witness ==
    /\ last.op = "train"
    /\ last.result = "no_pending"
    /\ pending[last.sess] = <<>>
    /\ \E b \in bookings : b.user_email = UserOf[last.sess]

\* C11: every record a bus finalize commits holds one seat per person: as many
\* seat identifiers as the num_persons of its draft, pairwise distinct
C11_BusSeatPerPerson ==
    [][\A s \in Sessions :
          (PutStep(s) /\ req[s].op = "bus" /\ req[s].booking[1].booking_type = "bus") =>
              \A item \in Inserted :
                  /\ Len(SeatList(item.seats_display)) = req[s].booking[1].num_persons
                  /\ Cardinality(SeatIds(item)) = Len(SeatList(item.seats_display))]_vars

\* the available seats a request computes for item i, date d and a universe of n seats
AvailableFor(i, d, n) == available_seats(all_seats(n), booked_seats(Query(bookings, i, d)))

\* this step is a details-confirmation or seat-display request (or a login, logout)
ReadStep == req' = req /\ last' = NoResponse

\* the seats of a universe of n seats, in its order, that no record of item i and
\* date d holds: a function of the table and of nothing else
FreeInTable(tbl, i, d, n) ==
    SelectSeq(all_seats(n), LAMBDA seat :
        \A b \in Query(tbl, i, d) : seat \notin Range(Split(b.seats_display, Sep)))

Ended(s) == req'[s].pc = "idle" /\ (PutStep(s) \/ Started(s, "train") \/ Started(s, "bus"))

\* C13: a finalize request that has started ends; it ends answered, either
\* COMMITTED (one record inserted) or ABORTED (the table as it was); a request at
\* put_item can always take its step whatever the other requests do, and some
\* request can be served in every state
C13_FinalizeTerminates ==
    /\ \A s \in Sessions : (req[s].pc = "put") ~> (req[s].pc = "idle")
    /\ [](\A s \in Sessions :
              req[s].pc = "put" => ENABLED (train_put_item(s) \/ bus_put_item(s)))
    /\ [](ENABLED Next)
    /\ [][\A s \in Sessions :
              Ended(s) =>
                  /\ Answered(s)
                  /\ \/ Cardinality(Inserted) = 1
                     \/ bookings' = bookings]_vars

C13_Witness ==
    /\ last.result = "success"
    /\ req[last.sess].pc = "idle"
    /\ \E v \in Sessions : req[v].pc = "put"

\* C14: with the finalize requests serialized, every seat identifier held for an
\* item and date is held by exactly one record of that item and date
C14_SerializedNoSharedSeat ==
    \A i \in ItemIds, d \in TravelDates :
        \A seat \in SeatsHeld(bookings, i, d) :
            Cardinality({b \in Query(bookings, i, d) : seat \in SeatIds(b)}) = 1

C14_Witness ==
    \E b1, b2 \in bookings :
        /\ b1.user_email # b2.user_email
        /\ SameTrip(b1, b2)
        /\ SeatIds(b1) # {}
        /\ SeatIds(b2) # {}
        /\ b1.booking_type # b2.booking_type

\* C15: a finalize request decides on the table as it is when the request runs:
\* the taken set it goes by is what the query returns in that state, no seat it
\* goes on to store is in that set, and no seat of the record it commits is
C15_DecidesOnRecheck ==
    [][\A s \in Sessions :
          /\ (req[s].pc = "idle" /\ req'[s].pc = "put") =>
                 /\ req'[s].taken = Booked(bookings, pending[s][1])
                 /\ Range(SeatList(req'[s].seats)) \cap Booked(bookings, pending[s][1]) = {}
          /\ PutStep(s) =>
                 \A item \in Inserted : SeatIds(item) \cap req[s].taken = {}]_vars

C15_Witness ==
    /\ last.result = "success"
    /\ \E b1, b2 \in bookings :
           /\ b1.booking_id < b2.booking_id
           /\ SameTrip(b1, b2)
           /\ b1.booking_type = "train"
           /\ b2.booking_type = b1.booking_type
           /\ SeatIds(b1) # {}
           /\ SeatIds(b2) # {}
           /\ SeatIds(b1) \cap SeatIds(b2) = {}

\* C16: a finalize or cancel request of a session without an email fails as
\* not logged in and leaves the table, the draft and the requests as they were;
\* a finalize request of a logged-in session without a draft fails for want of
\* a draft and leaves the table as it was; neither sends a notification
C16_UnmetPrecondition ==
    [][\A s \in Sessions :
          /\ (/\ ~LoggedIn(s)
              /\ \/ Started(s, "train")
                 \/ Started(s, "bus")
                 \/ Answered(s) /\ last'.op = "cancel") =>
                 /\ last' = Response(s, last'.op, "not_logged_in", 0)
                 /\ bookings' = bookings
                 /\ pending' = pending
                 /\ req' = req
          /\ (/\ LoggedIn(s)
              /\ pending[s] = <<>>
              /\ Started(s, "train") \/ Started(s, "bus")) =>
                 /\ last' \in {Response(s, "train", "no_pending", 0),
                               Response(s, "bus", "missing_data", 0)}
                 /\ bookings' = bookings
                 /\ pending' = pending
                 /\ req' = req]_vars

C16_Witness ==
    /\ last.result = "not_logged_in"
    /\ last.op \in {"train", "bus"}
    /\ sessEmail[last.sess] = NoEmail
    /\ pending[last.sess] # <<>>
    /\ bookings # {}

\* C17: the record a finalize step inserts has the booking_type of its own flow:
\* 'train' from final_confirm_train_booking, 'bus' from final_confirm_bus_booking
C17_FlowCommitsOwnDraft ==
    [][\A s \in Sessions :
          PutStep(s) => \A item \in Inserted : item.booking_type = req[s].op]_vars

\* C18: every seat identifier of a record a finalize step inserts from a draft of
\* its own flow belongs to the seat universe of that flow
C18_SeatsInUniverse ==
    [][\A s \in Sessions :
          (PutStep(s) /\ req[s].booking[1].booking_type = req[s].op) =>
              \A item \in Inserted : SeatIds(item) \subseteq Universe(req[s].op)]_vars

\* C19: whatever booking_id and booking_date a cancel request submits, every
\* record it removes is owned by the email of the session that sent it
C19_CancelOwnRecordsOnly ==
    [][\A s \in Sessions :
          (Answered(s) /\ last'.op = "cancel") =>
              \A r \in bookings \ bookings' : r.user_email = sessEmail[s]]_vars

C19_Witness ==
    /\ last.op = "cancel"
    /\ last.result = "success"
    /\ nextId = 2
    /\ \E b \in bookings : b.user_email # sessEmail[last.sess]

====
